---- MODULE Spec2Model ----
(***************************************************************************)
(* State-machine model of src/main.py: the IPTV source pipeline            *)
(*   Spider.run -> Validator.validate -> Aggregator.generate_playlist      *)
(*   -> the two output files written by main().                            *)
(* Text is modelled with real strings: URLs, playlist lines and the        *)
(* generated playlist are strings, and strip / splitlines / split / `in`   *)
(* / startswith / endswith are computed character by character.            *)
(***************************************************************************)
EXTENDS Integers, Sequences, FiniteSets, TLC

VARIABLES
    pc,              \* position of main(): "spider", "found", "validate", "probing", "aggregate",
                     \* "parsing", "done", "aborted"; "filter", "filtered" for is_allowed alone
    FILTER_INCLUDE,  \* main.py:14, read from the environment at import time
    FILTER_EXCLUDE,  \* main.py:15
    kw_i,            \* index of the keyword Spider.run is about to search
    all_candidates,  \* Spider.run local (main.py:67)
    tk_log,          \* history: per keyword, whether search_tonkiang succeeded and the links it returned
    candidates,      \* main local (main.py:170/178)
    tasks,           \* Validator.validate: per candidate task state
    done_order,      \* history: the task indices in the order their probes settled
    results,         \* Validator.validate: what gather returned (main.py:102)
    sorted_sources,  \* Validator.validate local valid_sources after the sort (main.py:106)
    valid_sources,   \* main local (main.py:181)
    src_i,           \* Aggregator.generate_playlist: enumerate index i (0-based position = src_i - 1)
    content,         \* Aggregator.generate_playlist local content
    lines,           \* parser: resp.text.splitlines()
    line_i,          \* parser: index of the next line to read
    pending_inf,     \* parser: pending #EXTINF line or None
    pending_at,      \* history: index in lines of the pending #EXTINF line (0 if none)
    channels,        \* history: one record per URL line the parser consumed
    fetch_log,       \* history: per processed source, how its fetch ended and what it contributed
    files,           \* output files written by main (main.py:187-193)
    f_name,          \* the name is_allowed is applied to, when the rule is run on its own
    f_result         \* what is_allowed answered for f_name ("unset" before the call)

vars == <<pc, FILTER_INCLUDE, FILTER_EXCLUDE, kw_i, all_candidates, tk_log, candidates,
          tasks, done_order, results, sorted_sources, valid_sources, src_i, content, lines,
          line_i, pending_inf, pending_at, channels, fetch_log, files, f_name, f_result>>

-----------------------------------------------------------------------------
(* Bounds *)

NumKeywords == 2
MaxLatency == 2

-----------------------------------------------------------------------------
(* Python string primitives *)

None == "None"

Truthy(s) == s # None /\ s # ""

Range(s) == {s[i] : i \in DOMAIN s}

CharAt(s, i) == SubSeq(s, i, i)

StartsWith(s, p) == Len(s) >= Len(p) /\ SubSeq(s, 1, Len(p)) = p

EndsWith(s, p) == Len(s) >= Len(p) /\ SubSeq(s, Len(s) - Len(p) + 1, Len(s)) = p

\* Python `kw in name` for strings: substring test ("" is in every string)
Contains(s, kw) ==
    \E i \in 1..(Len(s) - Len(kw) + 1) : SubSeq(s, i, i + Len(kw) - 1) = kw

Whitespace == {" ", "\t", "\n", "\r", "\f"}

RECURSIVE LStrip(_)
LStrip(s) ==
    IF Len(s) > 0 /\ CharAt(s, 1) \in Whitespace THEN LStrip(SubSeq(s, 2, Len(s))) ELSE s

RECURSIVE RStrip(_)
RStrip(s) ==
    IF Len(s) > 0 /\ CharAt(s, Len(s)) \in Whitespace THEN RStrip(SubSeq(s, 1, Len(s) - 1)) ELSE s

\* str.strip()
Strip(s) == RStrip(LStrip(s))

LineBreaks == {"\n", "\r", "\f"}

\* length of the first line of s, without its line break
RECURSIVE LineLen(_, _)
LineLen(s, k) ==
    IF k >= Len(s) \/ CharAt(s, k + 1) \in LineBreaks THEN k ELSE LineLen(s, k + 1)

\* str.splitlines(): breaks at \n, \r, \r\n, \f; no empty last line after a final break
RECURSIVE SplitLines(_)
SplitLines(s) ==
    IF Len(s) = 0 THEN <<>>
    ELSE LET k == LineLen(s, 0)
             brk == IF k + 2 <= Len(s) /\ SubSeq(s, k + 1, k + 2) = "\r\n" THEN 2
                    ELSE IF k + 1 <= Len(s) THEN 1 ELSE 0
         IN  <<SubSeq(s, 1, k)>> \o SplitLines(SubSeq(s, k + brk + 1, Len(s)))

\* position of the last "," of s, 0 if there is none
RECURSIVE LastComma(_, _)
LastComma(s, k) ==
    IF k = 0 THEN 0 ELSE IF CharAt(s, k) = "," THEN k ELSE LastComma(s, k - 1)

\* all orders in which a set can be listed: list(set(...)) has no specified order
SetToLists(S) ==
    {q \in [1..Cardinality(S) -> S] : \A i, j \in 1..Cardinality(S) : q[i] = q[j] => i = j}

IsPlaylistUrl(url) == EndsWith(url, ".m3u") \/ EndsWith(url, ".m3u8") \/ EndsWith(url, ".txt")

-----------------------------------------------------------------------------
(* Environment: what the network and the file system may answer *)

KeywordPool == <<"beijing", "unicom", "telecom", "mobile">>

\* main.py:12
KEYWORDS == SubSeq(KeywordPool, 1, NumKeywords)

\* bodies the scraping endpoint may return
TonkiangTexts ==
    { "<a>http://1.2.3.4:80/udp</a> http://1.2.3.4:80 http://a.b:1",
      "http://1.2.3.4:80 http://5.6.7.8:9" }

\* an outcome of the scraping GET: a body, or an exception (timeout, connection error)
TonkiangOutcomes ==
    {[ok |-> TRUE, text |-> t] : t \in TonkiangTexts} \cup {[ok |-> FALSE, text |-> ""]}

\* subs.txt: absent, or a sequence of raw lines
NoFile == <<"<absent>">>

SubsFiles ==
    { NoFile,
      <<"http://p/a.m3u\n", "# note\n", " http://1.2.3.4:80 \n">>,
      <<"http://p/a.m3u\n", "http://p/a.m3u\n">>,
      <<"http://q/b.txt\n", "ftp://x\n", "http://p/a.m3u">> }

\* what a probe or a playlist fetch may end in
HttpOutcomes ==
    {[kind |-> "status", status |-> c] : c \in {200, 404, 500}}
        \cup {[kind |-> "timeout", status |-> 0], [kind |-> "connection_error", status |-> 0]}

Latencies == 1..MaxLatency

-----------------------------------------------------------------------------
(* Spider *)

Digits == {"0", "1", "2", "3", "4", "5", "6", "7", "8", "9"}

\* length of the longest run of characters of cls in s starting at position i
RECURSIVE RunLen(_, _, _)
RunLen(s, i, cls) ==
    IF i <= Len(s) /\ CharAt(s, i) \in cls THEN 1 + RunLen(s, i + 1, cls) ELSE 0

\* length of the match of r'http://[\d\.]+:[\d]+' at position i of s, 0 if none
MatchAt(s, i) ==
    IF i + 6 <= Len(s) /\ SubSeq(s, i, i + 6) = "http://"
    THEN LET a == RunLen(s, i + 7, Digits \cup {"."})
             b == RunLen(s, i + 8 + a, Digits)
         IN  IF a >= 1 /\ i + 7 + a <= Len(s) /\ CharAt(s, i + 7 + a) = ":" /\ b >= 1
             THEN 7 + a + 1 + b ELSE 0
    ELSE 0

\* re.findall: non-overlapping matches, left to right
RECURSIVE FindAll(_, _)
FindAll(s, i) ==
    IF i > Len(s) THEN <<>>
    ELSE LET m == MatchAt(s, i)
         IN  IF m > 0 THEN <<SubSeq(s, i, i + m - 1)>> \o FindAll(s, i + m)
             ELSE FindAll(s, i + 1)

\* Spider.search_fofa: returns [] with or without credentials
search_fofa(keyword) == <<>>

\* Spider.search_tonkiang: the lists it may return for an outcome of the GET
search_tonkiang(outcome) ==
    IF outcome.ok THEN SetToLists(Range(FindAll(outcome.text, 1))) ELSE {<<>>}

\* Spider.run returning the list as collected
run_return_no_dedup(cands) == {cands}

\* Spider.run, line 78: list(set(all_candidates))
run_return(cands) == SetToLists(Range(cands))

\* one iteration of the keyword loop of Spider.run
SearchKeyword ==
    /\ pc = "spider"
    /\ kw_i <= Len(KEYWORDS)
    /\ \E outcome \in TonkiangOutcomes :
         \E tk_res \in search_tonkiang(outcome) :
            /\ all_candidates' = all_candidates \o search_fofa(KEYWORDS[kw_i]) \o tk_res
            /\ tk_log' = Append(tk_log, [ok |-> outcome.ok, links |-> Range(tk_res)])
    /\ kw_i' = kw_i + 1
    /\ UNCHANGED <<pc, FILTER_INCLUDE, FILTER_EXCLUDE, candidates, tasks, done_order, results,
                   sorted_sources, valid_sources, src_i, content, lines, line_i, pending_inf,
                   pending_at, channels, fetch_log, files, f_name, f_result>>

\* Spider.run returns; main.py:170
RunReturn ==
    /\ pc = "spider"
    /\ kw_i > Len(KEYWORDS)
    /\ \E c \in run_return(all_candidates) : candidates' = c
    /\ pc' = "found"
    /\ UNCHANGED <<FILTER_INCLUDE, FILTER_EXCLUDE, kw_i, all_candidates, tk_log, tasks,
                   done_order, results, sorted_sources, valid_sources, src_i, content, lines,
                   line_i, pending_inf, pending_at, channels, fetch_log, files, f_name, f_result>>

\* main.py:178: the lines of subs.txt that start with http, stripped
SubsCandidates(file) ==
    LET keep(l) == StartsWith(Strip(l), "http")
        kept == SelectSeq(file, keep)
    IN  [i \in 1..Len(kept) |-> Strip(kept[i])]

\* main.py:173-178: fallback to subs.txt when nothing was found
MainFallback ==
    /\ pc = "found"
    /\ IF candidates = <<>>
       THEN \E file \in SubsFiles :
               candidates' = IF file = NoFile THEN <<>> ELSE SubsCandidates(file)
       ELSE UNCHANGED candidates
    /\ pc' = "validate"
    /\ UNCHANGED <<FILTER_INCLUDE, FILTER_EXCLUDE, kw_i, all_candidates, tk_log, tasks,
                   done_order, results, sorted_sources, valid_sources, src_i, content, lines,
                   line_i, pending_inf, pending_at, channels, fetch_log, files, f_name, f_result>>

-----------------------------------------------------------------------------
(* Validator *)

NoResult == <<>>

NotSettled == [kind |-> "pending", status |-> 0]

Raised == <<"exception">>

\* main.py:84-87
ProbeTarget(url) == IF IsPlaylistUrl(url) THEN url ELSE url \o "/stat"

\* check_url without the status test: any HTTP answer counts
check_url_any_status(url, outcome, latency) ==
    IF outcome.kind = "status" THEN <<url, latency>> ELSE NoResult

\* check_url without the except clause: a timeout escapes the task
check_url_raises(url, outcome, latency) ==
    IF outcome.kind = "status" /\ outcome.status = 200 THEN <<url, latency>>
    ELSE IF outcome.kind = "timeout" THEN Raised
    ELSE NoResult

\* Validator.check_url: (url, latency) on HTTP 200, None on anything else
check_url(url, outcome, latency) ==
    IF outcome.kind = "status" /\ outcome.status = 200 THEN <<url, latency>> ELSE NoResult

\* an unstable sort: r goes before the elements of equal latency
RECURSIVE InsertByLatency_unstable(_, _)
InsertByLatency_unstable(sorted, r) ==
    IF sorted = <<>> THEN <<r>>
    ELSE IF r[2] <= Head(sorted)[2] THEN <<r>> \o sorted
    ELSE <<Head(sorted)>> \o InsertByLatency_unstable(Tail(sorted), r)

\* list.sort(key=latency) is stable: r goes after every element whose latency is <= its own
RECURSIVE InsertByLatency(_, _)
InsertByLatency(sorted, r) ==
    IF sorted = <<>> THEN <<r>>
    ELSE IF r[2] < Head(sorted)[2] THEN <<r>> \o sorted
    ELSE <<Head(sorted)>> \o InsertByLatency(Tail(sorted), r)

RECURSIVE SortByLatency(_)
SortByLatency(s) ==
    IF s = <<>> THEN <<>>
    ELSE InsertByLatency(SortByLatency(SubSeq(s, 1, Len(s) - 1)), s[Len(s)])

\* a wait that returns at the first completed task
GatherReady_first_completed(ts) == ts = <<>> \/ \E i \in DOMAIN ts : ts[i].st = "done"

\* asyncio.gather returns once every task is done
GatherReady(ts) == \A i \in DOMAIN ts : ts[i].st = "done"

\* main.py:98-102: one task per candidate, all handed to gather before any of them runs
ValidateLaunch ==
    /\ pc = "validate"
    /\ tasks' = [i \in 1..Len(candidates) |->
                    [st |-> "scheduled", url |-> candidates[i], target |-> "",
                     outcome |-> NotSettled, res |-> NoResult]]
    /\ pc' = "probing"
    /\ UNCHANGED <<FILTER_INCLUDE, FILTER_EXCLUDE, kw_i, all_candidates, tk_log, candidates,
                   done_order, results, sorted_sources, valid_sources, src_i, content, lines,
                   line_i, pending_inf, pending_at, channels, fetch_log, files, f_name, f_result>>

\* main.py:83-89: a task runs up to its request
TaskStart(i) ==
    /\ pc = "probing"
    /\ tasks[i].st = "scheduled"
    /\ tasks' = [tasks EXCEPT ![i].st = "inflight", ![i].target = ProbeTarget(tasks[i].url)]
    /\ UNCHANGED <<pc, FILTER_INCLUDE, FILTER_EXCLUDE, kw_i, all_candidates, tk_log, candidates,
                   done_order, results, sorted_sources, valid_sources, src_i, content, lines,
                   line_i, pending_inf, pending_at, channels, fetch_log, files, f_name, f_result>>

\* main.py:89-95: the request of a task settles
TaskSettle(i) ==
    /\ pc = "probing"
    /\ tasks[i].st = "inflight"
    /\ \E outcome \in HttpOutcomes, latency \in Latencies :
          tasks' = [tasks EXCEPT ![i].st = "done",
                                 ![i].outcome = outcome,
                                 ![i].res = check_url(tasks[i].url, outcome, latency)]
    /\ done_order' = Append(done_order, i)
    /\ UNCHANGED <<pc, FILTER_INCLUDE, FILTER_EXCLUDE, kw_i, all_candidates, tk_log, candidates,
                   results, sorted_sources, valid_sources, src_i, content, lines, line_i,
                   pending_inf, pending_at, channels, fetch_log, files, f_name, f_result>>

\* main.py:102-107 and 181: gather returns (or re-raises a task's exception), validate sorts
GatherReturn ==
    /\ pc = "probing"
    /\ GatherReady(tasks) \/ \E i \in DOMAIN tasks : tasks[i].res = Raised
    /\ IF \E i \in DOMAIN tasks : tasks[i].res = Raised
       THEN /\ pc' = "aborted"
            /\ UNCHANGED <<results, sorted_sources, valid_sources>>
       ELSE LET res == [i \in DOMAIN tasks |-> tasks[i].res]
                notNone(r) == r # NoResult
                srt == SortByLatency(SelectSeq(res, notNone))
            IN  /\ results' = res
                /\ sorted_sources' = srt
                /\ valid_sources' = [i \in 1..Len(srt) |-> srt[i][1]]
                /\ pc' = "aggregate"
    /\ UNCHANGED <<FILTER_INCLUDE, FILTER_EXCLUDE, kw_i, all_candidates, tk_log, candidates,
                   tasks, done_order, src_i, content, lines, line_i, pending_inf, pending_at,
                   channels, fetch_log, files, f_name, f_result>>

-----------------------------------------------------------------------------
(* Aggregator *)

\* bodies a playlist source may return
PlaylistTexts ==
    { "#EXTM3U\n#EXTINF:-1 group-title=\"News\",CNN\nhttp://a/1\nhttp://b/2\n",
      "#EXTINF:-1,CCTV1 HD\r\n  http://c/3  \n\n#comment\nhttp://c/4\n#EXTINF:-1 tvg-id=\"x\"\nhttp://d/4",
      "#EXTINF:-1,ESPN\n#EXTINF:-1 group-title=\"Sport\",News 24\nhttp://e/5" }

\* an outcome of requests.get on a playlist source (main.py:129)
FetchOutcomes ==
    {[kind |-> "status", status |-> 200, text |-> t] : t \in PlaylistTexts}
        \cup {[kind |-> "status", status |-> c, text |-> "not found"] : c \in {404, 500}}
        \cup {[kind |-> "timeout", status |-> 0, text |-> ""],
              [kind |-> "connection_error", status |-> 0, text |-> ""]}

\* the filter lists a run of the pipeline is configured with
FilterConfigs ==
    { [inc |-> <<>>, exc |-> <<>>],
      [inc |-> <<"News">>, exc |-> <<>>],
      [inc |-> <<>>, exc |-> <<"HD">>] }

\* the loops of is_allowed: `for kw in kws: if kw and kw in name: return ...`
RECURSIVE AnyKeywordIn(_, _)
AnyKeywordIn(kws, name) ==
    IF kws = <<>> THEN FALSE
    ELSE IF Head(kws) # "" /\ Contains(name, Head(kws)) THEN TRUE
    ELSE AnyKeywordIn(Tail(kws), name)

\* is_allowed with the whitelist tested before the blacklist
is_allowed_include_first(name) ==
    IF FILTER_INCLUDE # <<>> THEN AnyKeywordIn(FILTER_INCLUDE, name)
    ELSE IF FILTER_EXCLUDE # <<>> /\ AnyKeywordIn(FILTER_EXCLUDE, name) THEN FALSE
    ELSE TRUE

\* Aggregator.generate_playlist.is_allowed
is_allowed(name) ==
    IF FILTER_EXCLUDE # <<>> /\ AnyKeywordIn(FILTER_EXCLUDE, name) THEN FALSE
    ELSE IF FILTER_INCLUDE # <<>> THEN AnyKeywordIn(FILTER_INCLUDE, name)
    ELSE TRUE

\* main.py:142-148: the text after the last comma of the pending #EXTINF line, else ""
ChannelName(inf) ==
    IF Truthy(inf) /\ LastComma(inf, Len(inf)) > 0
    THEN SubSeq(inf, LastComma(inf, Len(inf)) + 1, Len(inf))
    ELSE ""

\* main.py:150: the test that decides whether a parsed channel is written
ChannelAllowed(inf) ==
    is_allowed(ChannelName(inf)) \/ is_allowed(IF Truthy(inf) THEN inf ELSE "")

\* main.py:135-140: how the parser classifies a stripped line
LineKind(line) ==
    IF line = "" THEN "blank"
    ELSE IF StartsWith(line, "#EXTINF") THEN "inf"
    ELSE IF ~StartsWith(line, "#") THEN "url"
    ELSE "comment"

\* the reset moved inside the `if is_allowed` block
PendingAfterUrl_if_written(pending, written) == IF written THEN None ELSE pending

\* main.py:154: the pending metadata after a URL line, written or not
PendingAfterUrl(pending, written) == None

\* the metadata line written without its line break
EmitChannel_joined(cont, inf, line) ==
    (IF Truthy(inf) THEN cont \o inf ELSE cont) \o line \o "\n"

\* main.py:151-153: the text a written channel adds
EmitChannel(cont, inf, line) ==
    (IF Truthy(inf) THEN cont \o inf \o "\n" ELSE cont) \o line \o "\n"

\* str(n) for n >= 0
RECURSIVE Str(_)
Str(n) ==
    LET d == <<"0", "1", "2", "3", "4", "5", "6", "7", "8", "9">>
    IN  IF n < 10 THEN d[n + 1] ELSE Str(n \div 10) \o d[(n % 10) + 1]

\* main.py:161: the metadata line of a source exported as is (n = i + 1)
SyntheticInf(n) == "#EXTINF:-1 group-title=\"Live\", Source " \o Str(n)

\* main.py:160-161: the fallback entry of a source
Fallback(cont, source, n) ==
    IF is_allowed(source) THEN cont \o SyntheticInf(n) \o "\n" \o source \o "\n" ELSE cont

\* how a fetch outcome is logged
FetchKind(o) ==
    IF o.kind = "status" THEN (IF o.status = 200 THEN "ok" ELSE "non200") ELSE "error"

\* main.py:126-131 and 156-161: generate_playlist takes the next source
SourceBegin ==
    /\ pc = "aggregate"
    /\ src_i <= Len(valid_sources)
    /\ LET source == valid_sources[src_i]
           synth == [src |-> src_i, at |-> 0, inf |-> SyntheticInf(src_i), inf_at |-> 0,
                     name |-> ChannelName(SyntheticInf(src_i)), url |-> source,
                     written |-> TRUE]
           fall(kind) ==
               /\ content' = Fallback(content, source, src_i)
               /\ channels' = IF is_allowed(source) THEN Append(channels, synth) ELSE channels
               /\ fetch_log' = Append(fetch_log,
                      [src |-> src_i, url |-> source, fetch |-> kind,
                       added |-> SubSeq(Fallback(content, source, src_i),
                                        Len(content) + 1,
                                        Len(Fallback(content, source, src_i)))])
               /\ src_i' = src_i + 1
               /\ UNCHANGED <<pc, lines, line_i, pending_inf, pending_at>>
       IN  IF IsPlaylistUrl(source)
           THEN \E o \in FetchOutcomes :
                   IF FetchKind(o) = "ok"
                   THEN /\ lines' = SplitLines(o.text)
                        /\ line_i' = 1
                        /\ pending_inf' = None
                        /\ pending_at' = 0
                        /\ pc' = "parsing"
                        /\ fetch_log' = Append(fetch_log,
                               [src |-> src_i, url |-> source, fetch |-> "ok", added |-> ""])
                        /\ UNCHANGED <<src_i, content, channels>>
                   ELSE fall(FetchKind(o))
           ELSE fall("none")
    /\ UNCHANGED <<FILTER_INCLUDE, FILTER_EXCLUDE, kw_i, all_candidates, tk_log, candidates,
                   tasks, done_order, results, sorted_sources, valid_sources, files, f_name,
                   f_result>>

\* main.py:134-154: one iteration of the line loop
ParseLine ==
    /\ pc = "parsing"
    /\ line_i <= Len(lines)
    /\ LET line == Strip(lines[line_i])
           kind == LineKind(line)
           ok == ChannelAllowed(pending_inf)
       IN  /\ pending_inf' = IF kind = "inf" THEN line
                             ELSE IF kind = "url" THEN PendingAfterUrl(pending_inf, ok)
                             ELSE pending_inf
           /\ pending_at' = IF kind = "inf" THEN line_i
                            ELSE IF pending_inf' = None THEN 0
                            ELSE pending_at
           /\ content' = IF kind = "url" /\ ok THEN EmitChannel(content, pending_inf, line)
                         ELSE content
           /\ channels' = IF kind = "url"
                          THEN Append(channels,
                                  [src |-> src_i, at |-> line_i, inf |-> pending_inf,
                                   inf_at |-> pending_at, name |-> ChannelName(pending_inf),
                                   url |-> line, written |-> ok])
                          ELSE channels
    /\ line_i' = line_i + 1
    /\ UNCHANGED <<pc, FILTER_INCLUDE, FILTER_EXCLUDE, kw_i, all_candidates, tk_log, candidates,
                   tasks, done_order, results, sorted_sources, valid_sources, src_i, lines,
                   fetch_log, files, f_name, f_result>>

\* main.py:155: the line loop is over, continue with the next source
ParseDone ==
    /\ pc = "parsing"
    /\ line_i > Len(lines)
    /\ src_i' = src_i + 1
    /\ pc' = "aggregate"
    /\ UNCHANGED <<FILTER_INCLUDE, FILTER_EXCLUDE, kw_i, all_candidates, tk_log, candidates,
                   tasks, done_order, results, sorted_sources, valid_sources, content, lines,
                   line_i, pending_inf, pending_at, channels, fetch_log, files, f_name, f_result>>

\* the text of output/iptv.txt: one source per line (main.py:191-193)
RECURSIVE JoinLines(_)
JoinLines(urls) ==
    IF urls = <<>> THEN "" ELSE Head(urls) \o "\n" \o JoinLines(Tail(urls))

\* main.py:162 and 185-193: generate_playlist returns and main writes both files
WriteOutputs ==
    /\ pc = "aggregate"
    /\ src_i > Len(valid_sources)
    /\ files' = [m3u |-> content, txt |-> JoinLines(valid_sources)]
    /\ pc' = "done"
    /\ UNCHANGED <<FILTER_INCLUDE, FILTER_EXCLUDE, kw_i, all_candidates, tk_log, candidates,
                   tasks, done_order, results, sorted_sources, valid_sources, src_i, content,
                   lines, line_i, pending_inf, pending_at, channels, fetch_log, f_name, f_result>>

-----------------------------------------------------------------------------
(* The pipeline *)

NoFiles == [m3u |-> None, txt |-> None]

Init ==
    /\ pc = "spider"
    /\ \E f \in FilterConfigs : FILTER_INCLUDE = f.inc /\ FILTER_EXCLUDE = f.exc
    /\ kw_i = 1
    /\ all_candidates = <<>>
    /\ tk_log = <<>>
    /\ candidates = <<>>
    /\ tasks = <<>>
    /\ done_order = <<>>
    /\ results = <<>>
    /\ sorted_sources = <<>>
    /\ valid_sources = <<>>
    /\ src_i = 1
    /\ content = "#EXTM3U\n"
    /\ lines = <<>>
    /\ line_i = 1
    /\ pending_inf = None
    /\ pending_at = 0
    /\ channels = <<>>
    /\ fetch_log = <<>>
    /\ files = NoFiles
    /\ f_name = ""
    /\ f_result = "unset"

Next ==
    \/ SearchKeyword
    \/ RunReturn
    \/ MainFallback
    \/ ValidateLaunch
    \/ \E i \in DOMAIN tasks : TaskStart(i)
    \/ \E i \in DOMAIN tasks : TaskSettle(i)
    \/ GatherReturn
    \/ SourceBegin
    \/ ParseLine
    \/ ParseDone
    \/ WriteOutputs

Spec == Init /\ [][Next]_vars

\* asyncio runs every ready callback and every timeout fires: no step waits forever
FairSpec == Spec /\ WF_vars(Next)

-----------------------------------------------------------------------------
(* The matching rule on its own: is_allowed applied to one name under one   *)
(* pair of filter lists, as FILTER_INCLUDE / FILTER_EXCLUDE can be set from *)
(* the environment ("HD," splits into <<"HD", "">>, "," into <<"", "">>).   *)

FilterNames == {"CCTV1 HD", "ESPN", "CNN News", "HD", ""}

IncludeLists == {<<>>, <<"CCTV">>, <<"CCTV", "News">>, <<"", "">>, <<"HD">>}

ExcludeLists == {<<>>, <<"HD">>, <<"HD", "">>, <<"News", "ESPN">>}

FilterInit ==
    /\ pc = "filter"
    /\ FILTER_INCLUDE \in IncludeLists
    /\ FILTER_EXCLUDE \in ExcludeLists
    /\ f_name \in FilterNames
    /\ f_result = "unset"
    /\ kw_i = 1
    /\ all_candidates = <<>>
    /\ tk_log = <<>>
    /\ candidates = <<>>
    /\ tasks = <<>>
    /\ done_order = <<>>
    /\ results = <<>>
    /\ sorted_sources = <<>>
    /\ valid_sources = <<>>
    /\ src_i = 1
    /\ content = "#EXTM3U\n"
    /\ lines = <<>>
    /\ line_i = 1
    /\ pending_inf = None
    /\ pending_at = 0
    /\ channels = <<>>
    /\ fetch_log = <<>>
    /\ files = NoFiles

\* a call of is_allowed(f_name)
ApplyFilter ==
    /\ pc = "filter"
    /\ f_result' = IF is_allowed(f_name) THEN "accept" ELSE "reject"
    /\ pc' = "filtered"
    /\ UNCHANGED <<FILTER_INCLUDE, FILTER_EXCLUDE, kw_i, all_candidates, tk_log, candidates,
                   tasks, done_order, results, sorted_sources, valid_sources, src_i, content,
                   lines, line_i, pending_inf, pending_at, channels, fetch_log, files, f_name>>

FilterNext == ApplyFilter

SpecFilter == FilterInit /\ [][FilterNext]_vars

-----------------------------------------------------------------------------
(* Properties *)

Validated == pc \in {"aggregate", "parsing", "done"}

Is200(o) == o.kind = "status" /\ o.status = 200

\* C1: validate returns exactly the candidates whose probe answered HTTP 200 (each as often
\* as it was passed with such a probe); a candidate whose probe answered another status,
\* timed out or failed to connect is not returned.
C1_ExactlyStatus200 ==
    Validated =>
        \A u \in Range(candidates) \cup Range(valid_sources) :
            Cardinality({i \in DOMAIN valid_sources : valid_sources[i] = u})
              = Cardinality({i \in DOMAIN tasks : tasks[i].url = u /\ Is200(tasks[i].outcome)})

\* C1 witness: validate has returned with one candidate kept and another dropped after a
\* timeout, the kept one having settled last.
C1_Witness ==
    /\ Validated
    /\ Len(valid_sources) = 1
    /\ \E i, j \in DOMAIN tasks :
          /\ Is200(tasks[i].outcome)
          /\ tasks[j].outcome.kind = "timeout"
          /\ tasks[i].url # tasks[j].url
          /\ done_order = <<j, i>>

\* C2: the sequence validate returns is non-decreasing in latency, and validated candidates
\* of equal latency keep the relative order in which they were passed to validate.
C2_SortedStable ==
    Validated =>
        /\ \A i \in 1..(Len(sorted_sources) - 1) : sorted_sources[i][2] <= sorted_sources[i + 1][2]
        /\ valid_sources = [i \in 1..Len(sorted_sources) |-> sorted_sources[i][1]]
        /\ \A l \in Latencies :
              LET sameOut(r) == r[2] = l
                  sameIn(r) == r # NoResult /\ r[2] = l
              IN  SelectSeq(sorted_sources, sameOut) = SelectSeq(results, sameIn)
        /\ results = [i \in DOMAIN candidates |-> tasks[i].res]
        /\ \A i \in DOMAIN results : results[i] # NoResult => results[i][1] = candidates[i]

\* C2 witness: two different candidates validated with the same latency, the second one
\* passed having completed first.
C2_Witness ==
    /\ Validated
    /\ Len(sorted_sources) = 2
    /\ sorted_sources[1][2] = sorted_sources[2][2]
    /\ sorted_sources[1][1] # sorted_sources[2][1]
    /\ done_order = <<2, 1>>

\* the rule as the claim words it: every keyword counts, the empty one too
ClaimedRule(name, include, exclude) ==
    IF exclude # <<>> /\ \E k \in Range(exclude) : Contains(name, k) THEN FALSE
    ELSE IF include # <<>> THEN \E k \in Range(include) : Contains(name, k)
    ELSE TRUE

\* the rule with empty keywords ignored
AmendedRule(name, include, exclude) ==
    IF \E k \in Range(exclude) : k # "" /\ Contains(name, k) THEN FALSE
    ELSE IF include # <<>> THEN \E k \in Range(include) : k # "" /\ Contains(name, k)
    ELSE TRUE

\* C3 as stated: is_allowed rejects when the name contains any exclude keyword, else with a
\* non-empty include list accepts exactly when the name contains an include keyword, else accepts.
C3_AsStated ==
    f_result # "unset" =>
        (f_result = "accept" <=> ClaimedRule(f_name, FILTER_INCLUDE, FILTER_EXCLUDE))

\* C3 amended: the same rule where only non-empty keywords count: an empty-string keyword
\* never matches, and exclusion still takes precedence over inclusion.
C3_EmptyKeywordsIgnored ==
    f_result # "unset" =>
        (f_result = "accept" <=> AmendedRule(f_name, FILTER_INCLUDE, FILTER_EXCLUDE))

\* C3 witness: a name that contains an include keyword and an exclude keyword was rejected.
C3_Witness ==
    /\ f_result = "reject"
    /\ \E k \in Range(FILTER_INCLUDE) : k # "" /\ Contains(f_name, k)
    /\ \E k \in Range(FILTER_EXCLUDE) : k # "" /\ Contains(f_name, k)

\* C4: a channel parsed from a playlist is written if and only if the matching rule accepts
\* its name.
C4_WrittenIffNameAllowed ==
    \A i \in DOMAIN channels :
        channels[i].at > 0 => (channels[i].written <=> is_allowed(channels[i].name))

\* C5: a playlist source whose fetch answered a non-200 status or raised adds nothing to the
\* generated playlist.
C5_FailedFetchAddsNothing ==
    \A i \in DOMAIN fetch_log :
        fetch_log[i].fetch \in {"non200", "error"} => fetch_log[i].added = ""

\* the index of the #EXTINF line pending when line u of ls is read: the last #EXTINF line
\* before u with no URL line in between, 0 if there is none
ExpectedInfAt(ls, u) ==
    LET infs == {j \in 1..(u - 1) :
                    /\ LineKind(Strip(ls[j])) = "inf"
                    /\ \A k \in (j + 1)..(u - 1) : LineKind(Strip(ls[k])) # "url"}
    IN  IF infs = {} THEN 0 ELSE CHOOSE j \in infs : \A k \in infs : k <= j

\* C6: while a playlist is parsed, every URL line read so far has yielded one channel, combined
\* with the #EXTINF line pending at that point or with none; the pending metadata is empty
\* after a URL line, written or not; no #EXTINF line is attached to two URL lines.
C6_PendingMetadata ==
    pc = "parsing" =>
        LET cur == SelectSeq(channels, LAMBDA c : c.src = src_i)
            urls == {u \in 1..(line_i - 1) : LineKind(Strip(lines[u])) = "url"}
        IN  /\ Len(cur) = Cardinality(urls)
            /\ \A i \in DOMAIN cur :
                  /\ cur[i].at \in urls
                  /\ cur[i].url = Strip(lines[cur[i].at])
                  /\ cur[i].inf_at = ExpectedInfAt(lines, cur[i].at)
                  /\ cur[i].inf = IF cur[i].inf_at = 0 THEN None ELSE Strip(lines[cur[i].inf_at])
            /\ \A i, j \in DOMAIN cur :
                  (cur[i].at = cur[j].at \/ (cur[i].inf_at > 0 /\ cur[i].inf_at = cur[j].inf_at))
                      => i = j
            /\ (line_i - 1) \in urls => pending_inf = None

\* C6 witness: a channel with metadata was filtered out and the next URL line of the same
\* playlist was read with no metadata pending.
C6_Witness ==
    /\ pc = "parsing"
    /\ \E i \in 1..(Len(channels) - 1) :
          /\ channels[i].src = src_i /\ channels[i + 1].src = src_i
          /\ channels[i].inf # None /\ ~channels[i].written
          /\ channels[i + 1].inf = None

FilesWritten == files.m3u # None /\ files.txt # None

\* C7: whatever the searches, the probes and the fetches end in, the run reaches the point
\* where both output files are written.
C7_RunCompletes == <>FilesWritten

\* C7 witness: both files are written after a keyword search failed, a probe timed out and
\* a playlist fetch failed.
C7_Witness ==
    /\ FilesWritten
    /\ \E k \in DOMAIN tk_log : ~tk_log[k].ok
    /\ \E i \in DOMAIN tasks : tasks[i].outcome.kind = "timeout"
    /\ \E i \in DOMAIN fetch_log : fetch_log[i].fetch = "error"

\* C8: what Spider.run returns has no duplicate URL and is the union of what the successful
\* backend calls returned.
C8_DedupUnion ==
    pc = "found" =>
        /\ \A i, j \in DOMAIN candidates : candidates[i] = candidates[j] => i = j
        /\ Range(candidates) = UNION {tk_log[k].links : k \in {n \in DOMAIN tk_log : tk_log[n].ok}}
        /\ Len(tk_log) = Len(KEYWORDS)

\* C8 witness: the search of one keyword failed and the search of another found links.
C8_Witness ==
    /\ pc = "found"
    /\ \E k \in DOMAIN tk_log : ~tk_log[k].ok
    /\ \E k \in DOMAIN tk_log : tk_log[k].ok /\ tk_log[k].links # {}
    /\ candidates # <<>>

\* the line parser of generate_playlist (main.py:133-154) without the filter: the channels
\* of a sequence of lines
RECURSIVE ParseFrom(_, _, _)
ParseFrom(ls, i, pending) ==
    IF i > Len(ls) THEN <<>>
    ELSE LET line == Strip(ls[i])
             kind == LineKind(line)
         IN  IF kind = "inf" THEN ParseFrom(ls, i + 1, line)
             ELSE IF kind = "url"
                  THEN <<[name |-> ChannelName(pending), inf |-> pending, url |-> line]>>
                           \o ParseFrom(ls, i + 1, PendingAfterUrl(pending, TRUE))
             ELSE ParseFrom(ls, i + 1, pending)

WrittenChannels ==
    LET w == SelectSeq(channels, LAMBDA c : c.written)
    IN  [i \in 1..Len(w) |-> [name |-> w[i].name, inf |-> w[i].inf, url |-> w[i].url]]

\* C9: parsing the generated playlist again with the same line parser gives back the written
\* channels (name, metadata line carrying the group, url), in the same order.
C9_RoundTrip ==
    pc = "done" => ParseFrom(SplitLines(files.m3u), 1, None) = WrittenChannels

\* C9 witness: a playlist was generated from a channel with metadata and one without, while
\* another channel was filtered out.
C9_Witness ==
    /\ pc = "done"
    /\ \E i, j, k \in DOMAIN channels :
          /\ channels[i].written /\ channels[i].inf # None /\ channels[i].at > 0
          /\ channels[j].written /\ channels[j].inf = None
          /\ ~channels[k].written

\* C10: every candidate has its probe handed to the event loop before any result is
\* collected, and validate returns only when every probe has settled.
C10_WaitsForAll ==
    /\ pc = "probing" => Len(tasks) = Len(candidates) /\ results = <<>>
    /\ Validated =>
          /\ Len(tasks) = Len(candidates)
          /\ \A i \in DOMAIN tasks : tasks[i].st = "done" /\ tasks[i].outcome # NotSettled
          /\ Len(done_order) = Len(tasks)

\* C10 witness: a probe has settled while another is still in flight, and validate has not
\* returned.
C10_Witness ==
    /\ pc = "probing"
    /\ \E i, j \in DOMAIN tasks : tasks[i].st = "done" /\ tasks[j].st = "inflight"
    /\ results = <<>>

====
